---- MODULE Spec2Model ----
(***************************************************************************)
(* Model of src/main.rs: an audio-reactive image viewer.                   *)
(*                                                                         *)
(* Two execution contexts share one atomic cell (current_index):           *)
(*   - the main thread: image bank construction, window set-up and the     *)
(*     winit event loop (redraw = load index, bounds-checked copy, render) *)
(*   - the audio thread: device selection, stream set-up and the cpal      *)
(*     input callback (RMS of the block, threshold, store of 0 or 1).      *)
(*                                                                         *)
(* Numbers.  Samples are f32 in the program and the model computes with    *)
(* f32 values: a value is NaN, or m * 2^e with m = 0 or 2^23 <= m < 2^24,   *)
(* and every product, sum, quotient and square root is rounded to the      *)
(* nearest such value, ties to even, as IEEE 754 binary32 does.  Sample    *)
(* values are written in units of 10^-4 (10 is 0.001) and converted to the *)
(* nearest f32.  The values of the model stay far inside the normal range  *)
(* of f32, so subnormals, infinities and the sign (every sample is squared *)
(* before anything else is done with it) are left out.                     *)
(* Indexes are 0-based as in the program; TLA+ sequences are 1-based, so   *)
(* images[idx] of the program is images[idx + 1] here.                     *)
(***************************************************************************)
EXTENDS Integers, Sequences, FiniteSets, TLC

VARIABLES
    mainPc,           \* position of main(): load, spawn, window, loop, exited
    path_i,           \* 0-based position in image_paths of the path loaded next
    images,           \* the image bank: Vec<Vec<u8>>
    frame,            \* pixels.frame_mut(): the presentation frame buffer
    is_fullscreen,    \* the fullscreen toggle of the event loop closure
    exiting,          \* elwt.exit() has been called
    redraw_requested, \* window.request_redraw() is pending
    control_flow,     \* the event loop's ControlFlow
    rdPc,             \* position inside the RedrawRequested handler
    idx,              \* the handler's local idx (the value loaded from current_index)
    presented,        \* number of pixels.render() calls of the current/last handler run
    last_render,      \* result of pixels.render() in the current/last handler run
    exit_status,      \* running, ok (exit code 0) or error (non-zero exit code)
    audioPc,          \* position of setup_audio_capture in the audio thread
    audio_error,      \* the error that ended setup_audio_capture, or none
    cbPc,             \* position inside the input callback
    data,             \* the sample block of the current / most recent callback
    rms,              \* the callback's local rms
    current_index,    \* the shared AtomicUsize
    last_switch,      \* the Instant guarded by the mutex (a reading of the monotonic clock)
    written,          \* history: the values stored into current_index so far
    stores_since_load,\* history: stores since the last load of current_index (capped)
    devices,          \* host.input_devices(): an enumeration or an error
    default_device,   \* host.default_input_device()
    selPc,            \* position of the device selection
    device            \* the device setup_audio_capture ends up with

vars == << mainPc, path_i, images, frame, is_fullscreen, exiting,
           redraw_requested, control_flow, rdPc, idx, presented, last_render,
           exit_status, audioPc, audio_error, cbPc, data, rms, current_index, last_switch,
           written, stores_since_load, devices, default_device, selPc,
           device >>

mainVars == << mainPc, path_i, images, frame, is_fullscreen, exiting,
               redraw_requested, control_flow, rdPc, idx, presented,
               last_render, exit_status >>

audioVars == << audioPc, audio_error, cbPc, data, rms, current_index,
                last_switch, written >>

deviceVars == << devices, default_device, selPc, device >>

----------------------------------------------------------------------------
(* Bounds of the model *)

\* the canvas, scaled down from 1664 x 1080
width == 2
height == 1
\* longest sample block delivered to the callback
MaxBlockLen == 2
\* largest reading of the monotonic clock (Instant::now())
MaxClock == 1
\* longest device enumeration
MaxDevices == 2
\* the long blocks given to the detector on its own: at most MaxBurst samples
\* of any value, then at most MaxSilence samples of 0.0
MaxBurst == 3
MaxSilence == 3

----------------------------------------------------------------------------
(* Helpers *)

Min(a, b) == IF a < b THEN a ELSE b

\* sequences over S of length at most n
SeqsUpTo(S, n) == UNION { [1..k -> S] : k \in 0..n }

----------------------------------------------------------------------------
(* Image bank construction: main.rs lines 18-44 and 133-170 *)

\* let image_paths = vec!["image1.jpg", "image2.jpg"], by position
image_paths == << 1, 2 >>

\* what a configured path can hold on disk
FileKinds == { "absent", "corrupt", "valid" }

\* vec![0u8; n]
Zeros(n) == [ i \in 1..n |-> 0 ]

\* the byte length of one RGBA buffer of the canvas
BufferSize == width * height * 4

\* The decoded picture of path p after resize_exact and to_rgba8: its pixel
\* at (x, y).  The two files hold different pictures, both opaque (JPEG).
DecodedPixel(p, x, y) == << (40 * p + x) % 256, (y + 1) % 256, 7, 255 >>

\* load_image: None (<<>> with ok FALSE) when image::open fails, else the
\* buffer filled pixel by pixel at (y * target_width + x) * 4.
load_image(p, kind, target_width, target_height) ==
    IF kind # "valid"
    THEN [ ok |-> FALSE, buffer |-> << >> ]
    ELSE [ ok |-> TRUE,
           buffer |-> [ i \in 1..(target_width * target_height * 4) |->
                          LET b  == i - 1
                              px == b \div 4
                              x  == px % target_width
                              y  == px \div target_width
                          IN  DecodedPixel(p, x, y)[(b % 4) + 1] ] ]

\* the demo buffers of lines 157-167: red_buffer and blue_buffer
red_buffer == [ i \in 1..BufferSize |->
                  IF (i - 1) % 4 = 0 THEN 136
                  ELSE IF (i - 1) % 4 = 3 THEN 255 ELSE 0 ]

\* the blue buffer filled with the writes meant for the red one
blue_buffer_as_red == red_buffer

blue_buffer == [ i \in 1..BufferSize |->
                   IF (i - 1) % 4 = 2 THEN 136
                   ELSE IF (i - 1) % 4 = 3 THEN 255 ELSE 0 ]

----------------------------------------------------------------------------
(* f32 arithmetic: IEEE 754 binary32, round to nearest, ties to even *)

\* the mantissa m of a non-zero f32 m * 2^e: MantMin <= m < MantMax
MantMin == 2^23
MantMax == 2^24

F32NaN == [ nan |-> TRUE, m |-> 0, e |-> 0 ]
F32Zero == [ nan |-> FALSE, m |-> 0, e |-> 0 ]

\* m * 2^e with the mantissa brought into MantMin..MantMax-1; no bit is lost
RECURSIVE F32Normalize(_, _)
F32Normalize(m, e) ==
    IF m = 0 THEN F32Zero
    ELSE IF m < MantMin THEN F32Normalize(2 * m, e - 1)
    ELSE [ nan |-> FALSE, m |-> m, e |-> e ]

\* n as f32, exact for 0 <= n < 2^24
F32FromInt(n) == F32Normalize(n, 0)

\* (m + rest) * 2^e rounded to f32, where 0 <= rest < 1 is twice_rest / (2 * unit):
\* up when the rest is above one half, or is one half and m is odd
F32Round(m, e, twice_rest, unit) ==
    LET up == twice_rest > unit \/ (twice_rest = unit /\ m % 2 = 1)
    IN  IF ~ up THEN [ nan |-> FALSE, m |-> m, e |-> e ]
        ELSE IF m + 1 = MantMax THEN [ nan |-> FALSE, m |-> MantMin, e |-> e + 1 ]
        ELSE [ nan |-> FALSE, m |-> m + 1, e |-> e ]

\* a * b on magnitudes: the 48-bit product of the mantissas, in two halves of
\* 24 bits (hi, lo), rounded to 24 bits
F32Mul(a, b) ==
    IF a.nan \/ b.nan THEN F32NaN
    ELSE IF a.m = 0 \/ b.m = 0 THEN F32Zero
    ELSE LET a1  == a.m \div 4096
             a0  == a.m % 4096
             b1  == b.m \div 4096
             b0  == b.m % 4096
             mid == a1 * b0 + a0 * b1
             t   == a0 * b0 + (mid % 4096) * 4096
             lo  == t % MantMax
             hi  == a1 * b1 + (mid \div 4096) + (t \div MantMax)
         IN  IF hi >= MantMin
             THEN F32Round(hi, a.e + b.e + 24, 2 * lo, MantMax)
             ELSE F32Round(2 * hi + (lo \div MantMin), a.e + b.e + 23,
                           2 * (lo % MantMin), MantMin)

\* x + y for x, y >= 0 with x.e >= y.e, both non-zero: y is shifted right by
\* the difference of the exponents, the bits shifted out decide the rounding
F32AddAligned(x, y) ==
    LET d == x.e - y.e
    IN  IF d > 25 THEN x
        ELSE LET q == y.m \div (2^d)
                 r == y.m % (2^d)
                 s == x.m + q
             IN  IF s < MantMax
                 THEN F32Round(s, x.e, 2 * r, 2^d)
                 ELSE F32Round(s \div 2, x.e + 1, 2 * ((s % 2) * (2^d) + r), 2^(d + 1))

\* a + b for a, b >= 0
F32Add(a, b) ==
    IF a.nan \/ b.nan THEN F32NaN
    ELSE IF a.m = 0 THEN b
    ELSE IF b.m = 0 THEN a
    ELSE IF a.e >= b.e THEN F32AddAligned(a, b)
    ELSE F32AddAligned(b, a)

\* n steps of binary long division by b: quotient q so far, remainder r < b
RECURSIVE F32DivSteps(_, _, _, _)
F32DivSteps(q, r, b, n) ==
    IF n = 0 THEN [ q |-> q, r |-> r ]
    ELSE IF 2 * r >= b THEN F32DivSteps(2 * q + 1, 2 * r - b, b, n - 1)
    ELSE F32DivSteps(2 * q, 2 * r, b, n - 1)

\* a / b for a >= 0 and b > 0; 0.0 / 0.0 is NaN
F32Div(a, b) ==
    IF a.nan \/ b.nan \/ b.m = 0 THEN F32NaN
    ELSE IF a.m = 0 THEN F32Zero
    ELSE LET n  == IF a.m >= b.m THEN 23 ELSE 24
             q0 == IF a.m >= b.m THEN 1 ELSE 0
             d  == F32DivSteps(q0, a.m - q0 * b.m, b.m, n)
         IN  F32Round(d.q, a.e - b.e - n, 2 * d.r, b.m)

\* the digit-by-digit square root of the 48-bit number hi * 2^24 + lo, two
\* bits of it (pair j of 24, from the top) per step: root so far, remainder
RECURSIVE F32SqrtSteps(_, _, _, _, _)
F32SqrtSteps(root, rest, hi, lo, j) ==
    IF j > 24 THEN [ root |-> root, rest |-> rest ]
    ELSE LET pair  == IF j <= 12 THEN (hi \div (4^(12 - j))) % 4
                      ELSE (lo \div (4^(24 - j))) % 4
             r2    == 4 * rest + pair
             trial == 4 * root + 1
         IN  IF r2 >= trial
             THEN F32SqrtSteps(2 * root + 1, r2 - trial, hi, lo, j + 1)
             ELSE F32SqrtSteps(2 * root, r2, hi, lo, j + 1)

\* a.sqrt() for a >= 0: the mantissa is shifted by 23 or 24 bits so that the
\* exponent left over is even; the root is rounded up when the remainder says
\* the exact root lies above root + 1/2 (it never lies on it)
F32Sqrt(a) ==
    IF a.nan THEN F32NaN
    ELSE IF a.m = 0 THEN F32Zero
    ELSE LET k  == IF (a.e - 24) % 2 = 0 THEN 24 ELSE 23
             hi == IF k = 24 THEN a.m ELSE a.m \div 2
             lo == IF k = 24 THEN 0 ELSE (a.m % 2) * MantMin
             s  == F32SqrtSteps(0, 0, hi, lo, 1)
         IN  F32Round(s.root, (a.e - k) \div 2,
                      IF s.rest > s.root THEN 2 ELSE 0, 1)

\* a > b for a, b >= 0: false when either is NaN
F32Gt(a, b) ==
    /\ ~ a.nan
    /\ ~ b.nan
    /\ a.m # 0
    /\ \/ b.m = 0
       \/ a.e > b.e
       \/ a.e = b.e /\ a.m > b.m

\* the f32 nearest to u * 10^-4, for u >= 0
F32FromUnits(u) == F32Div(F32FromInt(u), F32FromInt(10000))

----------------------------------------------------------------------------
(* Loudness detector: main.rs lines 91-113 *)

\* let threshold = 0.001f32, in units of 10^-4
threshold == 10

\* the sample values of the model, in units of 10^-4: -0.002, 0, 0.001.  In
\* f32 the first is exactly twice the threshold and the last exactly the
\* threshold.
Samples == { 0 - 20, 0, 10 }

\* the magnitude of the sample s as the f32 the callback receives
SampleF32(s) == F32FromUnits(IF s < 0 THEN 0 - s ELSE s)

Blocks == SeqsUpTo(Samples, MaxBlockLen)

\* data.iter().map(|&s| s * s).sum() over the samples lo..hi of d, continued
\* from the partial sum acc: the squares are added one by one in the order of
\* the block, every step rounded to f32 (the range is halved only to keep the
\* evaluation shallow; the order of the additions is the block's)
RECURSIVE SumSquares(_, _, _, _)
SumSquares(acc, d, lo, hi) ==
    IF lo > hi THEN acc
    ELSE IF lo = hi
    THEN F32Add(acc, F32Mul(SampleF32(d[lo]), SampleF32(d[lo])))
    ELSE LET mid  == (lo + hi) \div 2
             left == SumSquares(acc, d, lo, mid)
         IN  IF left.nan THEN F32NaN ELSE SumSquares(left, d, mid + 1, hi)

\* (sum / data.len() as f32).sqrt(), the sum starting at 0.0: NaN for the
\* empty block (0.0 / 0.0)
Rms(d) == F32Sqrt(F32Div(SumSquares(F32Zero, d, 1, Len(d)), F32FromInt(Len(d))))

\* the threshold as the f32 the callback compares with
threshold_f32 == F32FromUnits(threshold)

\* rms > threshold: false for NaN
RmsAboveThreshold(r) == F32Gt(r, threshold_f32)

\* the blocks of the detector specification: a burst followed by silence
DetectorBlocks ==
    { burst \o [ i \in 1..k |-> 0 ] :
        burst \in SeqsUpTo(Samples, MaxBurst), k \in 0..MaxSilence }

\* the rms the callback computes for each block of the model, as a table
\* (the @@ makes it a table of values rather than a rule applied on each use)
BlockRms == [ d \in Blocks \cup DetectorBlocks |-> Rms(d) ] @@ << >>

\* the two branches of lines 105-111 exchanged
DetectorIndexSwapped(r) == IF RmsAboveThreshold(r) THEN 0 ELSE 1

\* a detector that holds the index on a quiet block once an instant after
\* the first has been recorded: a cooldown gating the switch back
DetectorIndexHeld(r) ==
    IF RmsAboveThreshold(r) THEN 1
    ELSE IF last_switch > 0 THEN current_index ELSE 0

\* the index the callback stores for loudness r (lines 105-111)
DetectorIndex(r) == IF RmsAboveThreshold(r) THEN 1 ELSE 0

----------------------------------------------------------------------------
(* Audio device selection: main.rs lines 46-86 *)

\* A device name is a sequence of characters.
UpperCase == << "A", "B", "C", "D", "E", "F", "G", "H", "I", "J", "K", "L", "M",
               "N", "O", "P", "Q", "R", "S", "T", "U", "V", "W", "X", "Y", "Z" >>
LowerCase == << "a", "b", "c", "d", "e", "f", "g", "h", "i", "j", "k", "l", "m",
               "n", "o", "p", "q", "r", "s", "t", "u", "v", "w", "x", "y", "z" >>

\* char::to_lowercase on the characters of the model
LowerChar(c) ==
    IF \E k \in 1..Len(UpperCase) : UpperCase[k] = c
    THEN LowerCase[CHOOSE k \in 1..Len(UpperCase) : UpperCase[k] = c]
    ELSE c

\* name.to_lowercase()
to_lowercase(name) == [ k \in 1..Len(name) |-> LowerChar(name[k]) ]

\* str::contains
contains(s, sub) ==
    \E k \in 0..(Len(s) - Len(sub)) : SubSeq(s, k + 1, k + Len(sub)) = sub

\* the substrings of lines 64-68
LoopbackMarkers == {
    << "b", "l", "a", "c", "k", "h", "o", "l", "e" >>,
    << "s", "o", "u", "n", "d", "f", "l", "o", "w", "e", "r" >>,
    << "l", "o", "o", "p", "b", "a", "c", "k" >>,
    << "e", "q", "m", "a", "c" >>,
    << "m", "u", "l", "t", "i", "-", "o", "u", "t", "p", "u", "t" >> }

\* the condition without the lower-casing of line 63
IsLoopbackNameCaseSensitive(name) ==
    \E m \in LoopbackMarkers : contains(name, m)

\* the condition of lines 63-68 on a device name
IsLoopbackName(name) ==
    LET name_lower == to_lowercase(name)
    IN  \E m \in LoopbackMarkers : contains(name_lower, m)

\* Option<cpal::Device>::None
NoDevice == [ id |-> 0, name_ok |-> FALSE, name |-> << >> ]

\* A device: its identity, whether device.name() succeeds, and the name.
Dev(i, n) == [ id |-> i, name_ok |-> TRUE, name |-> n ]

\* the devices a host of the model can have
DevicePool == {
    Dev(1, << "B", "l", "a", "c", "k", "H", "o", "l", "e", " ", "2", "c", "h" >>),
    Dev(2, << "S", "o", "u", "n", "d", "f", "l", "o", "w", "e", "r", " ", "(", "2", "c", "h", ")" >>),
    Dev(3, << "L", "o", "o", "p", "b", "a", "c", "k", " ", "A", "u", "d", "i", "o" >>),
    Dev(4, << "e", "q", "M", "a", "c" >>),
    Dev(5, << "M", "u", "l", "t", "i", "-", "O", "u", "t", "p", "u", "t", " ", "D", "e", "v", "i", "c", "e" >>),
    Dev(6, << "M", "a", "c", "B", "o", "o", "k", " ", "P", "r", "o", " ", "M", "i", "c", "r", "o", "p", "h", "o", "n", "e" >>),
    Dev(7, << "B", "l", "a", "c", "k", " ", "H", "o", "l", "e" >>),
    [ id |-> 8, name_ok |-> FALSE, name |-> << >> ] }

\* host.input_devices(): Err, or an enumeration of distinct devices
EnumErr == [ ok |-> FALSE, list |-> << >> ]

DeviceEnumerations ==
    { EnumErr } \cup
    { [ ok |-> TRUE, list |-> l ] :
        l \in { q \in SeqsUpTo(DevicePool, MaxDevices) :
                  \A a, b \in 1..Len(q) : a # b => q[a].id # q[b].id } }

\* host.default_input_device()
DefaultDevices == { NoDevice } \cup DevicePool

\* the scan of lines 60-77: the first device, in enumeration order, whose
\* name can be read and holds a marker; None when the enumeration fails or
\* no device qualifies
find_loopback_device(devs) ==
    LET hits == { k \in 1..Len(devs.list) :
                    /\ devs.list[k].name_ok
                    /\ IsLoopbackName(devs.list[k].name) }
    IN  IF devs.ok /\ hits # {}
        THEN devs.list[CHOOSE k \in hits : \A j \in hits : k <= j]
        ELSE NoDevice

\* find_loopback_device().or_else(|| host.default_input_device()), lines 84-85
SelectDevice(devs, def) ==
    LET found == find_loopback_device(devs)
    IN  IF found # NoDevice THEN found ELSE def

\* the results the selection can have on the hosts of the model
SelectOutcomes ==
    { SelectDevice(devs, def) : devs \in DeviceEnumerations, def \in DefaultDevices }

----------------------------------------------------------------------------
(* Initial state: the process has started, nothing has run yet *)

Init ==
    /\ mainPc = "load"
    /\ path_i = 0
    /\ images = << >>
    /\ frame = << >>
    /\ is_fullscreen = FALSE
    /\ exiting = FALSE
    /\ redraw_requested = FALSE
    /\ control_flow = "Wait"
    /\ rdPc = "idle"
    /\ idx = 0
    /\ presented = 0
    /\ last_render = "none"
    /\ exit_status = "running"
    /\ audioPc = "unspawned"
    /\ audio_error = "none"
    /\ cbPc = "idle"
    /\ data = << >>
    /\ rms = Rms(<< >>)
    /\ current_index = 0
    /\ last_switch = 0
    /\ written = {}
    /\ stores_since_load = 0
    /\ devices = EnumErr
    /\ default_device = NoDevice
    /\ selPc = "idle"
    /\ device = NoDevice

\* Instant::now(): a reading of the monotonic clock, never before an earlier one
ClockReadings(earlier) == earlier..MaxClock

----------------------------------------------------------------------------
(* main(): start-up, lines 127-199 *)

\* one iteration of the loop of lines 142-152 over image_paths
LoadImagePath ==
    /\ mainPc = "load"
    /\ path_i < Len(image_paths)
    /\ \E kind \in FileKinds :
         LET loaded == load_image(image_paths[path_i + 1], kind, width, height)
         IN  images' = IF kind # "absent" /\ loaded.ok
                       THEN Append(images, loaded.buffer)
                       ELSE images
    /\ path_i' = path_i + 1
    /\ UNCHANGED << mainPc, frame, is_fullscreen, exiting, redraw_requested,
                    control_flow, rdPc, idx, presented, last_render, exit_status >>
    /\ UNCHANGED << audioVars, stores_since_load, deviceVars >>

\* lines 154-170: the demo images when nothing was loaded
FillPlaceholders ==
    /\ mainPc = "load"
    /\ path_i = Len(image_paths)
    /\ images' = IF images = << >> THEN << red_buffer, blue_buffer >> ELSE images
    /\ mainPc' = "spawn"
    /\ UNCHANGED << path_i, frame, is_fullscreen, exiting, redraw_requested,
                    control_flow, rdPc, idx, presented, last_render, exit_status >>
    /\ UNCHANGED << audioVars, stores_since_load, deviceVars >>

\* lines 173-184: the shared index is created at 0 and the audio thread spawned
SpawnAudioThread ==
    /\ mainPc = "spawn"
    /\ current_index' = 0
    /\ audioPc' = "select"
    /\ mainPc' = "window"
    /\ UNCHANGED << path_i, images, frame, is_fullscreen, exiting,
                    redraw_requested, control_flow, rdPc, idx, presented, last_render,
                    exit_status >>
    /\ UNCHANGED << audio_error, cbPc, data, rms, last_switch, written,
                    stores_since_load, deviceVars >>

\* lines 187-199: event loop, window and Pixels; any failure returns Err from main
SetupWindow ==
    /\ mainPc = "window"
    /\ \E ok \in BOOLEAN :
         IF ok
         THEN /\ frame' = Zeros(BufferSize)
              /\ is_fullscreen' = FALSE
              /\ mainPc' = "loop"
              /\ exit_status' = exit_status
         ELSE /\ mainPc' = "exited"
              /\ exit_status' = "error"
              /\ UNCHANGED << frame, is_fullscreen >>
    /\ UNCHANGED << path_i, images, exiting, redraw_requested, control_flow,
                    rdPc, idx, presented, last_render >>
    /\ UNCHANGED << audioVars, stores_since_load, deviceVars >>

----------------------------------------------------------------------------
(* The event loop closure: main.rs lines 201-272 *)

\* dispatch that first takes the mutex of last_switch: no event is handled
\* while the callback holds it
DispatchingUnderMutex == mainPc = "loop" /\ rdPc = "idle" /\ cbPc = "idle"

\* an event can be dispatched: the loop runs and no handler is in progress
Dispatching == mainPc = "loop" /\ rdPc = "idle"

\* WindowEvent::CloseRequested, lines 205-208
EvCloseRequested ==
    /\ Dispatching
    /\ control_flow' = "Poll"
    /\ exiting' = TRUE
    /\ UNCHANGED << mainPc, path_i, images, frame, is_fullscreen,
                    redraw_requested, rdPc, idx, presented, last_render, exit_status >>
    /\ UNCHANGED << audioVars, stores_since_load, deviceVars >>

\* WindowEvent::Resized, lines 210-219
EvResized ==
    /\ Dispatching
    /\ control_flow' = "Poll"
    /\ \E resize_ok \in BOOLEAN : exiting' = (exiting \/ ~ resize_ok)
    /\ redraw_requested' = TRUE
    /\ UNCHANGED << mainPc, path_i, images, frame, is_fullscreen, rdPc, idx,
                    presented, last_render, exit_status >>
    /\ UNCHANGED << audioVars, stores_since_load, deviceVars >>

\* the keys the handler of lines 221-244 tells apart
KeyCodes == { "Escape", "KeyF", "Other" }

\* WindowEvent::KeyboardInput with state Pressed, lines 221-244
EvKeyPressed ==
    /\ Dispatching
    /\ control_flow' = "Poll"
    /\ \E keycode \in KeyCodes :
         /\ exiting' = (exiting \/ keycode = "Escape")
         /\ is_fullscreen' = IF keycode = "KeyF" THEN ~ is_fullscreen
                             ELSE is_fullscreen
    /\ UNCHANGED << mainPc, path_i, images, frame, redraw_requested, rdPc, idx,
                    presented, last_render, exit_status >>
    /\ UNCHANGED << audioVars, stores_since_load, deviceVars >>

\* an AboutToWait handler that also resets the shared index
EvAboutToWaitResetsIndex ==
    /\ Dispatching
    /\ control_flow' = "Poll"
    /\ redraw_requested' = TRUE
    /\ current_index' = 0
    /\ UNCHANGED << mainPc, path_i, images, frame, is_fullscreen, exiting, rdPc,
                    idx, presented, last_render, exit_status >>
    /\ UNCHANGED << audioPc, audio_error, cbPc, data, rms, last_switch, written,
                    stores_since_load, deviceVars >>

\* an AboutToWait handler that requests no redraw
EvAboutToWaitIdle ==
    /\ Dispatching
    /\ control_flow' = "Poll"
    /\ UNCHANGED << mainPc, path_i, images, frame, is_fullscreen, exiting,
                    redraw_requested, rdPc, idx, presented, last_render,
                    exit_status >>
    /\ UNCHANGED << audioVars, stores_since_load, deviceVars >>

\* Event::AboutToWait, lines 267-269
EvAboutToWait ==
    /\ Dispatching
    /\ control_flow' = "Poll"
    /\ redraw_requested' = TRUE
    /\ UNCHANGED << mainPc, path_i, images, frame, is_fullscreen, exiting, rdPc,
                    idx, presented, last_render, exit_status >>
    /\ UNCHANGED << audioVars, stores_since_load, deviceVars >>

\* a load that can return a 1 nobody stored
AtomicLoadInvented(cell) == IF cell = 0 THEN 1 ELSE cell

\* current_index.load(Ordering::Relaxed): the whole value the cell holds
AtomicLoad(cell) == cell

\* WindowEvent::RedrawRequested, line 250: the handler starts and loads the
\* index.  The event is delivered for a pending request_redraw(), which it
\* consumes, and also unasked, when the system invalidates the window.
RedrawLoad ==
    /\ Dispatching
    /\ redraw_requested' = FALSE
    /\ control_flow' = "Poll"
    /\ idx' = AtomicLoad(current_index)
    /\ presented' = 0
    /\ last_render' = "none"
    /\ stores_since_load' = 0
    /\ rdPc' = "copy"
    /\ UNCHANGED << mainPc, path_i, images, frame, is_fullscreen, exiting,
                    exit_status >>
    /\ UNCHANGED << audioVars, deviceVars >>

\* the copy that always takes the first buffer of the bank
FrameAfterCopyFirst(i) ==
    IF i < Len(images)
    THEN IF Len(frame) = Len(images[1]) THEN images[1] ELSE frame
    ELSE frame

\* the copy that wraps the index round the bank instead of skipping
FrameAfterCopyWrapped(i) ==
    IF Len(images) > 0
    THEN IF Len(frame) = Len(images[(i % Len(images)) + 1])
         THEN images[(i % Len(images)) + 1] ELSE frame
    ELSE frame

\* the copy that checks the loaded index but looks the buffer up with a
\* second load of the shared index; << >> stands for the panic of an
\* out-of-bounds lookup
FrameAfterCopyReread(i) ==
    IF i < Len(images)
    THEN IF current_index < Len(images)
         THEN IF Len(frame) = Len(images[i + 1])
              THEN images[current_index + 1] ELSE frame
         ELSE << >>
    ELSE frame

\* the frame after lines 251-259, for the index i the handler loaded
FrameAfterCopy(i) ==
    IF i < Len(images)
    THEN IF Len(frame) = Len(images[i + 1]) THEN images[i + 1] ELSE frame
    ELSE frame

\* lines 251-259: the bounds-checked, length-checked copy
RedrawCopy ==
    /\ mainPc = "loop"
    /\ rdPc = "copy"
    /\ frame' = FrameAfterCopy(idx)
    /\ rdPc' = "render"
    /\ UNCHANGED << mainPc, path_i, images, is_fullscreen, exiting,
                    redraw_requested, control_flow, idx, presented, last_render, exit_status >>
    /\ UNCHANGED << audioVars, stores_since_load, deviceVars >>

\* a render failure that is only logged
ExitAfterRenderIgnored(render_ok) == exiting

\* what pixels.render() returning render_ok does to the exit request, lines 261-264
ExitAfterRender(render_ok) == exiting \/ ~ render_ok

\* lines 261-264: present the frame; a failure asks the loop to exit
RedrawRender ==
    /\ mainPc = "loop"
    /\ rdPc = "render"
    /\ presented' = presented + 1
    /\ \E render_ok \in BOOLEAN :
         /\ last_render' = IF render_ok THEN "ok" ELSE "err"
         /\ exiting' = ExitAfterRender(render_ok)
    /\ rdPc' = "idle"
    /\ UNCHANGED << mainPc, path_i, images, frame, is_fullscreen,
                    redraw_requested, control_flow, idx, exit_status >>
    /\ UNCHANGED << audioVars, stores_since_load, deviceVars >>

\* event_loop.run(..)? of line 272 returns Err: the ? returns it from main
\* and the process ends with a non-zero exit code, whether or not an exit had
\* been asked for; the frame and the bank are as the loop left them
LoopError ==
    /\ Dispatching
    /\ mainPc' = "exited"
    /\ exit_status' = "error"
    /\ UNCHANGED << path_i, images, frame, is_fullscreen, exiting,
                    redraw_requested, control_flow, rdPc, idx, presented, last_render >>
    /\ UNCHANGED << audioVars, stores_since_load, deviceVars >>

\* event_loop.run returns Ok(()) after elwt.exit(); main returns Ok(()),
\* lines 272-274
LoopExit ==
    /\ Dispatching
    /\ exiting
    /\ mainPc' = "exited"
    /\ exit_status' = "ok"
    /\ UNCHANGED << path_i, images, frame, is_fullscreen, exiting,
                    redraw_requested, control_flow, rdPc, idx, presented, last_render >>
    /\ UNCHANGED << audioVars, stores_since_load, deviceVars >>

----------------------------------------------------------------------------
(* The audio thread: setup_audio_capture, main.rs lines 80-125 *)

\* the thread runs as long as the process does
AudioAlive == mainPc # "exited"

\* setup_audio_capture returns Err(e): the closure of lines 180-184 prints it
\* and the thread ends; nothing else happens
AudioFail(e) ==
    /\ audioPc' = "failed"
    /\ audio_error' = e

\* lines 84-86: the device, or Err("No input device available")
AudioSelectDevice ==
    /\ AudioAlive
    /\ audioPc = "select"
    /\ \E selected \in SelectOutcomes :
         IF selected = NoDevice
         THEN AudioFail("NoInputDevice")
         ELSE audioPc' = "config" /\ audio_error' = audio_error
    /\ UNCHANGED << cbPc, data, rms, current_index, last_switch, written >>
    /\ UNCHANGED << mainVars, stores_since_load, deviceVars >>

\* line 88: device.default_input_config()?
AudioInputConfig ==
    /\ AudioAlive
    /\ audioPc = "config"
    /\ \E ok \in BOOLEAN :
         IF ok
         THEN audioPc' = "build" /\ audio_error' = audio_error
         ELSE AudioFail("DefaultStreamConfigError")
    /\ UNCHANGED << cbPc, data, rms, current_index, last_switch, written >>
    /\ UNCHANGED << mainVars, stores_since_load, deviceVars >>

\* lines 91-116: last_switch = Instant::now(), then device.build_input_stream(..)?
AudioBuildStream ==
    /\ AudioAlive
    /\ audioPc = "build"
    /\ \E t \in ClockReadings(last_switch) : last_switch' = t
    /\ \E ok \in BOOLEAN :
         IF ok
         THEN audioPc' = "play" /\ audio_error' = audio_error
         ELSE AudioFail("BuildStreamError")
    /\ UNCHANGED << cbPc, data, rms, current_index, written >>
    /\ UNCHANGED << mainVars, stores_since_load, deviceVars >>

\* lines 118-124: stream.play()?, then the thread sleeps for ever
AudioPlayStream ==
    /\ AudioAlive
    /\ audioPc = "play"
    /\ \E ok \in BOOLEAN :
         IF ok
         THEN audioPc' = "running" /\ audio_error' = audio_error
         ELSE AudioFail("PlayStreamError")
    /\ UNCHANGED << cbPc, data, rms, current_index, last_switch, written >>
    /\ UNCHANGED << mainVars, stores_since_load, deviceVars >>

\* the stream exists: build_input_stream (lines 95-116) has registered the
\* callback and the stream has not been dropped.  cpal may run a stream from
\* its creation, so the callback can be invoked before stream.play() returns;
\* when play() fails the function returns and drops the stream.
StreamExists == audioPc \in { "play", "running" }

\* lines 97-102 for the block the device delivers: its rms is computed and
\* the mutex is taken
CallbackRun(block) ==
    /\ AudioAlive
    /\ StreamExists
    /\ cbPc = "idle"
    /\ data' = block
    /\ rms' = BlockRms[block]
    /\ cbPc' = "locked"
    /\ UNCHANGED << audioPc, audio_error, current_index, last_switch, written >>
    /\ UNCHANGED << mainVars, stores_since_load, deviceVars >>

\* the callback is invoked with a block
CallbackBegin == \E block \in Blocks : CallbackRun(block)

\* lines 105-113: the store of 0 or 1 (and of the instant of a loud block),
\* then the mutex guard is dropped as the closure returns
CallbackStore ==
    /\ AudioAlive
    /\ cbPc = "locked"
    /\ current_index' = DetectorIndex(rms)
    /\ IF RmsAboveThreshold(rms)
       THEN \E t \in ClockReadings(last_switch) : last_switch' = t
       ELSE last_switch' = last_switch
    /\ written' = written \cup { current_index' }
    /\ stores_since_load' = Min(stores_since_load + 1, 2)
    /\ cbPc' = "idle"
    /\ UNCHANGED << audioPc, audio_error, data, rms >>
    /\ UNCHANGED << mainVars, deviceVars >>

----------------------------------------------------------------------------
(* The program *)

Next ==
    \/ LoadImagePath
    \/ FillPlaceholders
    \/ SpawnAudioThread
    \/ SetupWindow
    \/ EvCloseRequested
    \/ EvResized
    \/ EvKeyPressed
    \/ EvAboutToWait
    \/ RedrawLoad
    \/ RedrawCopy
    \/ RedrawRender
    \/ LoopExit
    \/ LoopError
    \/ AudioSelectDevice
    \/ AudioInputConfig
    \/ AudioBuildStream
    \/ AudioPlayStream
    \/ CallbackBegin
    \/ CallbackStore

Spec == Init /\ [][Next]_vars

\* the redraw that window.request_redraw() (lines 218, 268) asked for is delivered
RequestedRedraw == redraw_requested /\ RedrawLoad

\* The event loop under ControlFlow::Poll (line 202) never blocks: it keeps
\* iterating, every iteration ends in AboutToWait, and a requested redraw is
\* delivered and its handler runs to its end.
SpecLive ==
    /\ Init
    /\ [][Next]_vars
    /\ WF_vars(EvAboutToWait)
    /\ WF_vars(RequestedRedraw)
    /\ WF_vars(RedrawCopy)
    /\ WF_vars(RedrawRender)

----------------------------------------------------------------------------
(* Device selection on its own: every host of the model, one selection *)

InitDevice ==
    /\ mainPc = "window"
    /\ path_i = Len(image_paths)
    /\ images = << red_buffer, blue_buffer >>
    /\ frame = << >>
    /\ is_fullscreen = FALSE
    /\ exiting = FALSE
    /\ redraw_requested = FALSE
    /\ control_flow = "Wait"
    /\ rdPc = "idle"
    /\ idx = 0
    /\ presented = 0
    /\ last_render = "none"
    /\ exit_status = "running"
    /\ audioPc = "select"
    /\ audio_error = "none"
    /\ cbPc = "idle"
    /\ data = << >>
    /\ rms = Rms(<< >>)
    /\ current_index = 0
    /\ last_switch = 0
    /\ written = {}
    /\ stores_since_load = 0
    /\ devices \in DeviceEnumerations
    /\ default_device \in DefaultDevices
    /\ selPc = "start"
    /\ device = NoDevice

\* lines 84-86 on the host held in devices and default_device
DeviceSelection ==
    /\ audioPc = "select"
    /\ selPc = "start"
    /\ device' = SelectDevice(devices, default_device)
    /\ IF device' = NoDevice
       THEN AudioFail("NoInputDevice")
       ELSE audioPc' = "config" /\ audio_error' = audio_error
    /\ selPc' = "done"
    /\ UNCHANGED << cbPc, data, rms, current_index, last_switch, written >>
    /\ UNCHANGED << mainVars, stores_since_load, devices, default_device >>

NextDevice == DeviceSelection

SpecDevice == InitDevice /\ [][NextDevice]_vars

----------------------------------------------------------------------------
(* The detector on its own: the stream runs and delivers long blocks *)

InitDetector ==
    /\ mainPc = "window"
    /\ path_i = Len(image_paths)
    /\ images = << red_buffer, blue_buffer >>
    /\ frame = << >>
    /\ is_fullscreen = FALSE
    /\ exiting = FALSE
    /\ redraw_requested = FALSE
    /\ control_flow = "Wait"
    /\ rdPc = "idle"
    /\ idx = 0
    /\ presented = 0
    /\ last_render = "none"
    /\ exit_status = "running"
    /\ audioPc = "running"
    /\ audio_error = "none"
    /\ cbPc = "idle"
    /\ data = << >>
    /\ rms = Rms(<< >>)
    /\ current_index = 0
    /\ last_switch \in ClockReadings(0)
    /\ written = {}
    /\ stores_since_load = 0
    /\ devices = EnumErr
    /\ default_device = NoDevice
    /\ selPc = "idle"
    /\ device = NoDevice

\* the callback is invoked with a burst followed by silence
DetectorCallbackBegin == \E block \in DetectorBlocks : CallbackRun(block)

NextDetector ==
    \/ DetectorCallbackBegin
    \/ CallbackStore

SpecDetector == InitDetector /\ [][NextDetector]_vars

----------------------------------------------------------------------------
(* Properties *)

\* the sum of the squares of a block, from its first sample on
RECURSIVE SquaresFrom(_, _)
SquaresFrom(d, k) ==
    IF k > Len(d) THEN 0 ELSE d[k] * d[k] + SquaresFrom(d, k + 1)

\* The RMS of a block in exact arithmetic strictly exceeds the threshold: the
\* block has samples and the mean of their squares is strictly above the
\* square of the threshold.  The f32 samples of the model are exactly 0, the
\* threshold and twice the threshold, so the comparison is one of integers
\* (10 units = the threshold).
LoudBlock(d) == Len(d) > 0 /\ SquaresFrom(d, 1) > 100 * Len(d)

\* the detector classifies a block as loud: the rms it computes for the
\* block is above the threshold
ClassifiedLoud(d) == RmsAboveThreshold(BlockRms[d])

\* the redraw handler has loaded the index and not yet returned
InRedraw == rdPc \in { "copy", "render" }

\* the copy of the redraw is due: index in range and lengths equal
CopyDue == idx < Len(images) /\ Len(images[idx + 1]) = Len(frame)

\* the devices of the pool whose names hold a loopback marker in any case:
\* BlackHole 2ch, Soundflower (2ch), Loopback Audio, eqMac, Multi-Output Device
LoopbackIds == 1..5

\* C1: the index a redraw has read is a valid index into the image bank,
\* strictly below the bank's length, whatever was loaded at start-up.
C1_RedrawIndexWithinBank == InRedraw => idx < Len(images)

\* C2: once the audio set-up has failed the main thread neither enters the
\* render loop nor starts a redraw, and the process ends with a non-zero exit.
C2_AudioFailureTerminatesProcess ==
    [][ audioPc = "failed" =>
          /\ ~ (mainPc = "window" /\ mainPc' = "loop")
          /\ ~ (rdPc = "idle" /\ rdPc' = "copy")
          /\ (mainPc' = "exited" => exit_status' = "error") ]_vars

\* C3: once the bank is built it holds exactly two buffers, whatever the
\* configured paths hold.
C3_BankHoldsTwoBuffers == mainPc # "load" => Len(images) = 2

\* C4: the shared index is 0 until a block has been processed, afterwards it
\* is the index of the most recently processed block, and it is always 0 or 1.
C4_IndexIsLastComputed ==
    /\ current_index \in { 0, 1 }
    /\ written = {} => current_index = 0
    /\ (written # {} /\ cbPc = "idle") =>
           current_index = IF ClassifiedLoud(data) THEN 1 ELSE 0

\* C4 witness: blocks have been processed, both values have been stored, and
\* the index is the one of the last block, a quiet one.
C4_Witness ==
    /\ cbPc = "idle"
    /\ written = { 0, 1 }
    /\ data = << 10, 0 >>
    /\ current_index = 0

\* C5: the store of a callback writes 1 exactly when the RMS of the block
\* strictly exceeds the threshold and 0 exactly when it is at or below it,
\* whatever the index, the blocks and the instant before it.
C5_StoreFollowsBlockOnly ==
    [][ (cbPc = "locked" /\ cbPc' = "idle") =>
          /\ current_index' = 1 <=> LoudBlock(data)
          /\ current_index' = 0 <=> ~ LoudBlock(data) ]_vars

\* C6: the value a redraw reads is 0 or a value some earlier store wrote, it
\* is read whole, and the read leaves the cell as it was.
C6_ReadsSeeStoredValues ==
    /\ [] (InRedraw => idx \in ({ 0 } \cup written))
    /\ [][ (rdPc = "idle" /\ rdPc' = "copy") =>
             /\ idx' \in { 0, 1 }
             /\ idx' = current_index
             /\ current_index' = current_index ]_vars

\* C6 witness: a redraw read 1; two stores followed, the first of them
\* overwritten unread, and the cell now holds 0.
C6_Witness ==
    /\ rdPc = "copy"
    /\ idx = 1
    /\ current_index = 0
    /\ stores_since_load = 2

\* C7: after the copy step of a redraw whose index is in range and whose
\* bank buffer is as long as the frame, the frame equals that buffer.
C7_FrameEqualsSelectedBuffer ==
    (rdPc = "render" /\ CopyDue) => frame = images[idx + 1]

\* C7 witness: index 1, a bank of two different buffers, frame = buffer[1].
C7_Witness ==
    /\ rdPc = "render"
    /\ idx = 1
    /\ Len(images) = 2
    /\ images[1] # images[2]
    /\ frame = images[2]

\* C8: the copy step of a redraw whose index is out of range, or whose
\* buffer length differs from the frame's, leaves the frame as it was and
\* asks for no exit: the loop keeps running.
C8_SkippedCopyKeepsFrame ==
    [][ (rdPc = "copy" /\ rdPc' = "render" /\ ~ CopyDue) =>
          /\ frame' = frame
          /\ exiting' = exiting
          /\ mainPc' = "loop" ]_vars

\* C8 witness: a bank of one buffer, index 1 read, the copy step done and
\* the frame still showing buffer 0 from an earlier redraw.
C8_Witness ==
    /\ rdPc = "render"
    /\ Len(images) = 1
    /\ idx = 1
    /\ frame = images[1]
    /\ ~ exiting

\* C9: the selection yields the first enumerated device with a loopback
\* name, else the default input device, else the no-input-device error.
C9_SelectionPolicy ==
    selPc = "done" =>
        LET hits == IF devices.ok
                    THEN { k \in 1..Len(devices.list) :
                             devices.list[k].id \in LoopbackIds }
                    ELSE {}
        IN  IF hits # {}
            THEN /\ \E k \in hits : /\ \A j \in hits : k <= j
                                    /\ device = devices.list[k]
                 /\ audio_error = "none"
            ELSE IF default_device # NoDevice
            THEN device = default_device /\ audio_error = "none"
            ELSE /\ device = NoDevice
                 /\ audioPc = "failed"
                 /\ audio_error = "NoInputDevice"

\* C9 witness: a loopback device enumerated second, after a microphone, is
\* selected although another device is the default.
C9_Witness ==
    /\ selPc = "done"
    /\ devices.ok
    /\ Len(devices.list) = 2
    /\ devices.list[1].id = 6
    /\ devices.list[2].id = 1
    /\ default_device.id = 6
    /\ device.id = 1

\* C10: a redraw presents exactly once, copy or no copy; a failed
\* presentation asks the loop to exit and is not repeated, a successful one
\* leaves the exit request as it was.
C10_PresentOncePerRedraw ==
    /\ [] /\ InRedraw => presented = 0
          /\ last_render # "none" => (rdPc = "idle" /\ presented = 1)
          /\ last_render = "err" => exiting
    /\ [][ (rdPc = "render" /\ rdPc' = "idle") =>
             /\ presented' = 1
             /\ last_render' = "ok" => exiting' = exiting
             /\ last_render' = "err" => exiting' ]_vars

\* C10 witness: a redraw that skipped the copy presented once, the
\* presentation failed and the loop was asked to exit.
C10_Witness ==
    /\ rdPc = "idle"
    /\ idx >= Len(images)
    /\ presented = 1
    /\ last_render = "err"
    /\ exiting

\* the pixels of a buffer of the canvas, 0-based
PixelsOf(buf) == 0..((Len(buf) \div 4) - 1)

\* the colour (red, green, blue) and the alpha of pixel k of a buffer
ColourAt(buf, k) == << buf[4 * k + 1], buf[4 * k + 2], buf[4 * k + 3] >>
AlphaAt(buf, k) == buf[4 * k + 4]

\* a buffer of the canvas's size, fully opaque and of one flat colour
FlatOpaque(buf) ==
    /\ Len(buf) = width * height * 4
    /\ \A k \in PixelsOf(buf) : AlphaAt(buf, k) = 255
    /\ \A k \in PixelsOf(buf) : ColourAt(buf, k) = ColourAt(buf, 0)

\* C11: the step that ends the bank's construction turns an empty bank into
\* exactly two flat, opaque buffers of the canvas's size whose colours
\* differ, and leaves a bank with at least one loaded image as it is.
C11_PlaceholdersOnlyForEmptyBank ==
    [][ (mainPc = "load" /\ mainPc' = "spawn") =>
          IF images = << >>
          THEN /\ Len(images') = 2
               /\ FlatOpaque(images'[1])
               /\ FlatOpaque(images'[2])
               /\ ColourAt(images'[1], 0) # ColourAt(images'[2], 0)
          ELSE images' = images ]_vars

\* C11 witness: nothing was loaded and the render loop runs on a bank of a
\* red and a blue buffer.
C11_Witness ==
    /\ mainPc = "loop"
    /\ Len(images) = 2
    /\ ColourAt(images[1], 0) = << 136, 0, 0 >>
    /\ ColourAt(images[2], 0) = << 0, 0, 136 >>

\* every sample of a block is 0 (the empty block included)
AllZero(d) == \A k \in 1..Len(d) : d[k] = 0

\* C12: while a block of zeros is being processed its computed loudness is
\* exactly 0, the empty block included, and the detector then writes 0.
C12_SilenceHasZeroLoudness ==
    /\ (cbPc = "locked" /\ AllZero(data)) =>
           rms = F32Zero
    /\ (cbPc = "idle" /\ written # {} /\ AllZero(data)) => current_index = 0

\* the step of the callback that stores the index and returns
StoreStep == cbPc = "locked" /\ cbPc' = "idle"

\* C13: no dwell time.  A loud block after a quiet one, and a quiet block
\* after a loud one, flips the index at once whatever the recorded instant;
\* the instant never goes back, moves only in a store for a loud block (after
\* its initialisation when the stream is built), and stays on a quiet block.
C13_NoDwellTime ==
    [][ /\ StoreStep =>
             /\ (current_index = 0 /\ ClassifiedLoud(data)) => current_index' = 1
             /\ (current_index = 1 /\ ~ ClassifiedLoud(data)) => current_index' = 0
             /\ ~ ClassifiedLoud(data) => last_switch' = last_switch
        /\ last_switch' >= last_switch
        /\ last_switch' # last_switch =>
             \/ StoreStep /\ ClassifiedLoud(data)
             \/ audioPc = "build" ]_vars

\* C13 witness: the index went back to 0 on a quiet block although the
\* instant of the last loud block is the latest reading the clock can give,
\* so no time has passed since that switch.
C13_Witness ==
    /\ cbPc = "idle"
    /\ Len(data) > 0
    /\ ~ ClassifiedLoud(data)
    /\ current_index = 0
    /\ written = { 0, 1 }
    /\ last_switch = MaxClock

\* the frame is whole: as created, or exactly one buffer of the bank
WholeFrame ==
    \/ frame = Zeros(width * height * 4)
    \/ \E k \in 1..Len(images) : frame = images[k]

\* C14: the index is loaded once per redraw and that one value serves the
\* bounds check and the lookup.  Only the load step changes idx; the copy
\* step, whatever the shared index has become since the load, copies the
\* buffer of idx when idx is in range and nothing otherwise; the frame is
\* always whole.
C14_OneLoadPerRedraw ==
    /\ [] (mainPc = "loop" => WholeFrame)
    /\ [][ /\ idx' # idx => (rdPc = "idle" /\ rdPc' = "copy")
           /\ (rdPc = "copy" /\ rdPc' = "render") =>
                IF idx < Len(images)
                THEN frame' = images[idx + 1]
                ELSE frame' = frame ]_vars

\* C14 witness: a redraw loaded 0, the detector stored 1 before the handler
\* returned, and the frame is buffer 0 of a bank of two different buffers.
C14_Witness ==
    /\ rdPc = "render"
    /\ idx = 0
    /\ current_index = 1
    /\ stores_since_load > 0
    /\ Len(images) = 2
    /\ images[1] # images[2]
    /\ frame = images[1]

\* a step of the event loop closure: an event handler starts, or the redraw
\* handler moves on
RenderLoopStep ==
    /\ mainPc = "loop"
    /\ \/ rdPc' # rdPc
       \/ << is_fullscreen, exiting, redraw_requested, control_flow, frame,
             presented, last_render >>'
            # << is_fullscreen, exiting, redraw_requested, control_flow, frame,
                 presented, last_render >>

\* C15: the shared index changes only in the store step of the audio
\* callback, never in a step of the event loop, and once the bank is built
\* no step changes it.
C15_SingleWriterFixedBank ==
    [][ /\ current_index' # current_index => StoreStep
        /\ RenderLoopStep => current_index' = current_index
        /\ mainPc # "load" => images' = images ]_vars

\* C15 witness: redraws, a fullscreen toggle and an exit request have been
\* handled and the callback has run, and the index is the callback's 1.
C15_Witness ==
    /\ mainPc = "loop"
    /\ is_fullscreen
    /\ exiting
    /\ last_render = "ok"
    /\ cbPc = "idle"
    /\ written = { 0, 1 }
    /\ current_index = 1

\* C16: the render path never waits on the audio path.  Whatever the
\* callback is doing, the mutex held or not, a requested redraw can start
\* and a started one can take its next step; the callback that holds the
\* mutex can always finish and release it; and while the process runs some
\* step is always possible.
C16_RenderNeverWaitsOnAudio ==
    /\ (mainPc = "loop" /\ rdPc = "idle" /\ redraw_requested) => ENABLED RedrawLoad
    /\ (mainPc = "loop" /\ rdPc = "copy") => ENABLED RedrawCopy
    /\ (mainPc = "loop" /\ rdPc = "render") => ENABLED RedrawRender
    /\ (mainPc # "exited" /\ cbPc = "locked") => ENABLED CallbackStore
    /\ mainPc # "exited" => ENABLED Next

\* C16 witness: the callback holds the mutex while a redraw is due, and an
\* earlier redraw has already gone through.
C16_Witness ==
    /\ cbPc = "locked"
    /\ mainPc = "loop"
    /\ rdPc = "idle"
    /\ redraw_requested
    /\ last_render = "ok"
    /\ ~ exiting

\* the render loop runs on a bank of two buffers, no exit has been asked
\* for, no presentation has failed, and the shared index is v
SteadyAt(v) ==
    /\ mainPc = "loop"
    /\ ~ exiting
    /\ last_render # "err"
    /\ Len(images) = 2
    /\ current_index = v

\* the frame shows buffer v of a bank of two
Shows(v) == Len(images) = 2 /\ frame = images[v + 1]

\* C17: under a fairly scheduled event loop, if from some point on the loop
\* runs undisturbed on a bank of two buffers and the shared index stays v,
\* the frame eventually equals buffer v and stays equal to it.
C17_FrameSettlesOnStableIndex ==
    \A v \in { 0, 1 } : (<>[] SteadyAt(v)) => (<>[] Shows(v))

\* C17 witness: the loop runs undisturbed, the detector's last store was 1
\* and a successful redraw has put buffer 1 of two different buffers into
\* the frame.
C17_Witness ==
    /\ SteadyAt(1)
    /\ cbPc = "idle"
    /\ rdPc = "idle"
    /\ last_render = "ok"
    /\ images[1] # images[2]
    /\ Shows(1)

====
